---- MODULE Spec2Model ----
(***************************************************************************)
(* SendinBlue (Brevo) v3 backend of django-anymail:                        *)
(*   anymail/backends/sendinblue.py                                        *)
(* SendinBluePayload is built by setter calls, serialized once by          *)
(* serialize_data, posted, and the response is turned into per-recipient   *)
(* statuses by EmailBackend.parse_recipient_status.                        *)
(*                                                                         *)
(* Python values are modelled as follows.                                  *)
(*   dict   : a sequence of <<key, value>> pairs with distinct keys, in    *)
(*            insertion order (the order json.dumps writes them)           *)
(*   list   : a sequence                                                   *)
(*   str    : a TLA+ string; a str produced by serialize_json is the       *)
(*            sequence of its JSON tokens                                  *)
(*   None   : [some |-> FALSE, ...], a value x that may be None is         *)
(*            [some |-> TRUE, val |-> x]                                   *)
(***************************************************************************)
EXTENDS Integers, Sequences, FiniteSets, TLC

VARIABLES
    payload,            \* the SendinBluePayload object's fields
    pc,                 \* where the send is: build, unsupported, serialized, done, api_error
    is_batch,           \* what payload.is_batch() answers for this message
    ignore_unsupported, \* the backend's ignore_unsupported_features setting
    unsupported,        \* the features passed to unsupported_feature, in order
    body,               \* what serialize_data returned
    response,           \* the HTTP response handed to parse_recipient_status
    result,             \* what parse_recipient_status returned or raised
    calls,              \* the (recipient_type, emails) arguments of the set_recipients calls
    html_calls,         \* the non-empty bodies passed to set_html_body
    called,             \* the once-per-message setters that have been called
    esp_extra,          \* the mapping passed to set_esp_extra
    args                \* the message: its to, merge_data, metadata and merge_metadata

vars == <<payload, pc, is_batch, ignore_unsupported, unsupported, body, response,
          result, calls, html_calls, called, esp_extra, args>>

-----------------------------------------------------------------------------
(* Bounds *)

\* longest list of addresses passed to one set_recipients call
MaxLen == 2

\* set_recipients calls plus addresses passed in them, over one payload
MaxWork == 5

\* set_html_body calls with a non-empty body, over one payload
MaxHtmlCalls == 2

\* longest messageIds array of a response
MaxIds == 3

-----------------------------------------------------------------------------
(* Python dict, in insertion order *)

Keys(d) == {d[i][1] : i \in 1..Len(d)}

Has(d, k) == \E i \in 1..Len(d) : d[i][1] = k

Get(d, k) == d[CHOOSE i \in 1..Len(d) : d[i][1] = k][2]

Put(d, k, v) ==
    IF Has(d, k)
    THEN [d EXCEPT ![CHOOSE i \in 1..Len(d) : d[i][1] = k] = <<k, v>>]
    ELSE Append(d, <<k, v>>)

RECURSIVE Update(_, _)
Update(d, other) ==
    IF Len(other) = 0 THEN d
    ELSE Update(Put(d, other[1][1], other[1][2]), Tail(other))

Pop(d, k) == SelectSeq(d, LAMBDA e : e[1] # k)

None == [some |-> FALSE, val |-> <<>>]

Some(x) == [some |-> TRUE, val |-> x]

\* dict.get(k): the value, or None
DictGet(d, k) == IF Has(d, k) THEN Some(Get(d, k)) ELSE None

NoId == [some |-> FALSE, val |-> ""]

-----------------------------------------------------------------------------
(* serialize_json: JSON text as a sequence of tokens *)

JsonStr(s) == <<"\"", s, "\"">>

JsonText(t) == <<"\"">> \o t \o <<"\"">>

RECURSIVE JsonMembers(_)
JsonMembers(m) ==
    IF Len(m) = 0 THEN <<>>
    ELSE JsonStr(m[1][1]) \o <<":">> \o m[1][2]
         \o (IF Len(m) > 1 THEN <<",">> ELSE <<>>) \o JsonMembers(Tail(m))

\* m: a sequence of <<key, tokens of the value>>
JsonObject(m) == <<"{">> \o JsonMembers(m) \o <<"}">>

RECURSIVE JsonItems(_)
JsonItems(items) ==
    IF Len(items) = 0 THEN <<>>
    ELSE items[1] \o (IF Len(items) > 1 THEN <<",">> ELSE <<>>) \o JsonItems(Tail(items))

JsonArray(items) == <<"[">> \o JsonItems(items) \o <<"]">>

\* a dict of str -> str
JsonStrDict(d) == JsonObject([i \in 1..Len(d) |-> <<d[i][1], JsonStr(d[i][2])>>])

\* the headers dict: its values are serialized texts
JsonHeaders(d) == JsonObject([i \in 1..Len(d) |-> <<d[i][1], JsonText(d[i][2])>>])

JsonEmailList(l) == JsonArray([i \in 1..Len(l) |-> JsonStrDict(l[i])])

JsonOptDict(p) == IF p.some THEN JsonStrDict(p.val) ELSE <<"null">>

JsonVersionValue(k, v) ==
    CASE k = "to" -> JsonEmailList(v)
      [] k = "params" -> JsonOptDict(v)
      [] k = "headers" -> JsonHeaders(v)

JsonVersion(ver) ==
    JsonObject([i \in 1..Len(ver) |-> <<ver[i][1], JsonVersionValue(ver[i][1], ver[i][2])>>])

JsonDataValue(k, v) ==
    CASE k \in {"to", "cc", "bcc"} -> JsonEmailList(v)
      [] k = "headers" -> JsonHeaders(v)
      [] k = "htmlContent" -> JsonStr(v)
      [] k = "messageVersions" -> JsonArray([i \in 1..Len(v) |-> JsonVersion(v[i])])

\* serialize_json(self.data)
serialize_json_data(data) ==
    JsonObject([i \in 1..Len(data) |-> <<data[i][1], JsonDataValue(data[i][1], data[i][2])>>])

\* serialize_json(metadata): a flat dict of str -> str
serialize_json(metadata) == JsonStrDict(metadata)

-----------------------------------------------------------------------------
(* SendinBluePayload *)

\* __init__ and init_payload
init_payload ==
    [ data |-> << <<"headers", <<>>>> >>,
      merge_data |-> <<>>,
      metadata |-> <<>>,
      merge_metadata |-> <<>>,
      all_recipients |-> <<>>,
      to_recipients |-> <<>> ]

email_object(email) ==
    IF email.display_name # ""
    THEN << <<"email", email.addr_spec>>, <<"name", email.display_name>> >>
    ELSE << <<"email", email.addr_spec>> >>

EmailObjects(emails) == [i \in 1..Len(emails) |-> email_object(emails[i])]

AsTuple(f) == IF Len(f) = 0 THEN <<>> ELSE SubSeq(f, 1, Len(f))

\* set_recipients with all_recipients assigned instead of extended
set_recipients_replacing(p, recipient_type, emails) ==
    IF Len(emails) > 0
    THEN [p EXCEPT
            !.data = Put(p.data, recipient_type, AsTuple(EmailObjects(emails))),
            !.all_recipients = emails,
            !.to_recipients = IF recipient_type = "to" THEN emails ELSE p.to_recipients]
    ELSE p

\* set_recipients with to_recipients taken from the accumulated list
set_recipients_accumulated(p, recipient_type, emails) ==
    IF Len(emails) > 0
    THEN [p EXCEPT
            !.data = Put(p.data, recipient_type, AsTuple(EmailObjects(emails))),
            !.all_recipients = p.all_recipients \o emails,
            !.to_recipients = IF recipient_type = "to" THEN p.all_recipients \o emails
                              ELSE p.to_recipients]
    ELSE p

set_recipients(p, recipient_type, emails) ==
    IF Len(emails) > 0
    THEN [p EXCEPT
            !.data = Put(p.data, recipient_type, AsTuple(EmailObjects(emails))),
            !.all_recipients = p.all_recipients \o emails,
            !.to_recipients = IF recipient_type = "to" THEN emails ELSE p.to_recipients]
    ELSE p

-----------------------------------------------------------------------------
(* EmailBackend.parse_recipient_status *)

AnymailRecipientStatus(message_id, status) == [message_id |-> message_id, status |-> status]

\* parsed_response[key]: the value, or KeyError / TypeError
Subscript(parsed, key) ==
    IF parsed.kind # "object" THEN [ok |-> FALSE, err |-> "TypeError"]
    ELSE IF key \notin parsed.keys THEN [ok |-> FALSE, err |-> "KeyError"]
    ELSE [ok |-> TRUE, err |-> ""]

\* recipient_status = {recipient.addr_spec: status for recipient in payload.all_recipients}
RECURSIVE DefaultStatuses(_, _)
DefaultStatuses(recipients, status) ==
    IF Len(recipients) = 0 THEN <<>>
    ELSE Put(DefaultStatuses(SubSeq(recipients, 1, Len(recipients) - 1), status),
             recipients[Len(recipients)].addr_spec, status)

\* the zip loop with an address keeping the first id it was given
RECURSIVE ZipStatusesKeepingFirst(_, _, _)
ZipStatusesKeepingFirst(recipient_status, tos, message_ids) ==
    IF Len(tos) = 0 \/ Len(message_ids) = 0 THEN recipient_status
    ELSE Put(ZipStatusesKeepingFirst(recipient_status, Tail(tos), Tail(message_ids)),
             tos[1].addr_spec, [message_id |-> Some(message_ids[1]), status |-> "queued"])

\* for to, message_id in zip(payload.to_recipients, message_ids): ...
RECURSIVE ZipStatuses(_, _, _)
ZipStatuses(recipient_status, tos, message_ids) ==
    IF Len(tos) = 0 \/ Len(message_ids) = 0 THEN recipient_status
    ELSE ZipStatuses(
            Put(recipient_status, tos[1].addr_spec,
                AnymailRecipientStatus(Some(message_ids[1]), "queued")),
            Tail(tos), Tail(message_ids))

Returned(recipient_status) ==
    [raised |-> FALSE, exc |-> "", text |-> "", email_message |-> <<>>,
     payload |-> init_payload, response |-> <<>>, recipient_status |-> recipient_status]

Raised(exc, text, message, p, resp) ==
    [raised |-> TRUE, exc |-> exc, text |-> text, email_message |-> <<message>>,
     payload |-> p, response |-> <<resp>>, recipient_status |-> <<>>]

\* the response parsed whether or not it has content
has_content_always(resp) == TRUE

\* if response.content != b"":
has_content(resp) == ~resp.empty

\* message_id = parsed_response["messageId"] succeeded
has_message_id(parsed) == Subscript(parsed, "messageId").ok

\* messageIds read whether or not messageId was there
has_message_ids_regardless(parsed) == Subscript(parsed, "messageIds").ok

\* message_ids = parsed_response["messageIds"] was tried and succeeded
has_message_ids(parsed) ==
    ~Subscript(parsed, "messageId").ok /\ Subscript(parsed, "messageIds").ok

\* the missing fields passed over in silence
format_error_swallowed(parsed) == FALSE

\* both subscripts raised KeyError or TypeError
format_error(parsed) ==
    ~Subscript(parsed, "messageId").ok /\ ~Subscript(parsed, "messageIds").ok

parse_recipient_status(resp, p, message) ==
    LET parsed == resp.parsed
        message_id == IF has_content(resp) /\ has_message_id(parsed)
                      THEN Some(parsed.messageId) ELSE NoId
        message_ids == IF has_content(resp) /\ has_message_ids(parsed)
                       THEN parsed.messageIds ELSE <<>>
        status == AnymailRecipientStatus(message_id, "queued")
        recipient_status == DefaultStatuses(p.all_recipients, status)
    IN  IF has_content(resp) /\ format_error(parsed)
        THEN Raised("AnymailRequestsAPIError", "Invalid SendinBlue API response format",
                    message, p, resp)
        ELSE Returned(IF Len(message_ids) > 0
                      THEN ZipStatuses(recipient_status, p.to_recipients, message_ids)
                      ELSE recipient_status)

-----------------------------------------------------------------------------
(* SendinBluePayload: the other setters and serialize_data *)

\* set_html_body with the assignment skipped when htmlContent is there
set_html_body_keeping_first(p, html) ==
    IF html # "" /\ ~Has(p.data, "htmlContent")
    THEN [p EXCEPT !.data = Put(p.data, "htmlContent", html)] ELSE p

set_html_body(p, html) ==
    IF html # "" THEN [p EXCEPT !.data = Put(p.data, "htmlContent", html)] ELSE p

\* whether set_html_body(html) calls unsupported_feature("multiple html parts")
html_unsupported(p, html) == html # "" /\ Has(p.data, "htmlContent")

set_esp_extra(p, extra) == [p EXCEPT !.data = Update(p.data, extra)]

\* set_merge_data bound at once to the "to" list of the moment
set_merge_data_eager(p, merge_data) ==
    LET to_list == IF Has(p.data, "to") THEN Get(p.data, "to") ELSE <<>>
        emails == {Get(to_list[i], "email") : i \in 1..Len(to_list)}
    IN  [p EXCEPT !.merge_data = SelectSeq(merge_data, LAMBDA e : e[1] \in emails)]

set_merge_data(p, merge_data) == [p EXCEPT !.merge_data = merge_data]

set_metadata(p, metadata) ==
    [p EXCEPT
       !.data = Put(p.data, "headers",
                    Put(Get(p.data, "headers"), "X-Mailin-custom", serialize_json(metadata))),
       !.metadata = metadata]

set_merge_metadata(p, merge_metadata) == [p EXCEPT !.merge_metadata = merge_metadata]

\* the version with params defaulting to an empty mapping
message_version_default_params(p, to) ==
    << <<"to", <<to>>>>,
       <<"params", IF Has(p.merge_data, Get(to, "email"))
                   THEN Some(Get(p.merge_data, Get(to, "email"))) ELSE Some(<<>>)>> >>

\* {"to": [to], "params": self.merge_data.get(to["email"])}
message_version(p, to) ==
    << <<"to", <<to>>>>, <<"params", DictGet(p.merge_data, Get(to, "email"))>> >>

\* the override with the global metadata applied over the recipient's
version_headers_global_last(p, version) ==
    LET to_email == Get(Get(version, "to")[1], "email")
    IN  IF Has(p.merge_metadata, to_email)
        THEN Put(version, "headers",
                 << <<"X-Mailin-custom",
                      serialize_json(Update(Get(p.merge_metadata, to_email), p.metadata))>> >>)
        ELSE version

\* the per-recipient "headers" override of one version
version_headers(p, version) ==
    LET to_email == Get(Get(version, "to")[1], "email")
    IN  IF Has(p.merge_metadata, to_email)
        THEN Put(version, "headers",
                 << <<"X-Mailin-custom",
                      serialize_json(Update(p.metadata, Get(p.merge_metadata, to_email)))>> >>)
        ELSE version

\* the is_batch() branch of serialize_data
burst_to(p) ==
    LET to_list == IF Has(p.data, "to") THEN Get(p.data, "to") ELSE <<>>
        versions == [i \in 1..Len(to_list) |-> message_version(p, to_list[i])]
        with_headers == IF Len(p.merge_metadata) > 0
                        THEN [i \in 1..Len(to_list) |-> version_headers(p, versions[i])]
                        ELSE versions
    IN  [p EXCEPT !.data = Put(Pop(p.data, "to"), "messageVersions", AsTuple(with_headers))]

\* if not self.data["headers"]: del self.data["headers"]
drop_empty_headers(p) ==
    IF Len(Get(p.data, "headers")) = 0 THEN [p EXCEPT !.data = Pop(p.data, "headers")] ELSE p

\* the payload after serialize_data, and the text it returns
serialize_data(p, batch) ==
    LET q == drop_empty_headers(IF batch THEN burst_to(p) ELSE p)
    IN  [payload |-> q, body |-> serialize_json_data(q.data)]

-----------------------------------------------------------------------------
(* The values the calls are made with *)

Emails ==
    { [addr_spec |-> "x@x.com", display_name |-> ""],
      [addr_spec |-> "y@y.com", display_name |-> "Y"] }

EmailLists == UNION {[1..n -> Emails] : n \in 0..MaxLen}

RecipientTypes == {"to", "cc", "bcc"}

HtmlBodies == {"", "h1", "h2"}

MergeDatas == { <<>>, << <<"x@x.com", << <<"name", "X">> >>>> >> }

Metadatas == { <<>>, << <<"k", "g">>, <<"j", "g2">> >> }

MergeMetadatas ==
    { <<>>,
      << <<"x@x.com", << <<"j", "r">>, <<"n", "s">> >>>> >>,
      << <<"y@y.com", <<>>>> >> }

Extras ==
    { << <<"to", << << <<"email", "z@z.com">> >> >>>> >>,
      << <<"messageVersions", <<>>>> >>,
      << <<"htmlContent", "h0">> >> }

\* the ids "1", "2", ... of a batch response; "0" is the id of a single-id response
MessageIds == [i \in 1..MaxIds |-> ToString(i)]

NoParsed == [kind |-> "none", keys |-> {}, messageId |-> "", messageIds |-> <<>>]

Object(keys, message_id, message_ids) ==
    [kind |-> "object", keys |-> keys, messageId |-> message_id, messageIds |-> message_ids]

\* the bodies of the responses: empty, a JSON array, and JSON objects
Responses ==
    { [empty |-> TRUE, parsed |-> NoParsed],
      [empty |-> FALSE, parsed |-> [NoParsed EXCEPT !.kind = "array"]] }
    \cup { [empty |-> FALSE, parsed |-> Object(keys, "", <<>>)] : keys \in {{}, {"foo"}} }
    \cup { [empty |-> FALSE, parsed |-> Object({"messageId"} \cup more, "0",
                                              IF more = {} THEN <<>> ELSE AsTuple(MessageIds))] :
            more \in {{}, {"messageIds"}} }
    \cup { [empty |-> FALSE, parsed |-> Object({"messageIds"}, "", SubSeq(MessageIds, 1, k))] :
            k \in 0..MaxIds }

NoArgs == [to |-> <<>>, merge_data |-> <<>>, metadata |-> <<>>, merge_metadata |-> <<>>]

NoResult == Returned(<<>>)

-----------------------------------------------------------------------------
(* The send of one message *)

InitWith(ignore, a) ==
    /\ payload = init_payload
    /\ pc = "build"
    /\ is_batch = FALSE
    /\ ignore_unsupported = ignore
    /\ unsupported = <<>>
    /\ body = <<>>
    /\ response = <<>>
    /\ result = NoResult
    /\ calls = <<>>
    /\ html_calls = <<>>
    /\ called = {}
    /\ esp_extra = <<>>
    /\ args = a

RECURSIVE Work(_)
Work(cs) == IF Len(cs) = 0 THEN 0 ELSE 1 + Len(cs[1][2]) + Work(Tail(cs))

\* set_recipients(recipient_type, emails), any number of times
CallSetRecipients ==
    /\ pc = "build"
    /\ \E recipient_type \in RecipientTypes, emails \in EmailLists :
         /\ Work(calls) + 1 + Len(emails) <= MaxWork
         /\ payload' = set_recipients(payload, recipient_type, AsTuple(emails))
         /\ calls' = Append(calls, <<recipient_type, AsTuple(emails)>>)
    /\ UNCHANGED <<pc, is_batch, ignore_unsupported, unsupported, body, response, result,
                   html_calls, called, esp_extra, args>>

\* set_recipients as BasePayload calls it: once for "to", once for "cc"
SetRecipientsOnce ==
    /\ pc = "build"
    /\ \E recipient_type \in {"to", "cc"} \ called, emails \in EmailLists :
         /\ payload' = set_recipients(payload, recipient_type, AsTuple(emails))
         /\ calls' = Append(calls, <<recipient_type, AsTuple(emails)>>)
         /\ called' = called \cup {recipient_type}
    /\ UNCHANGED <<pc, is_batch, ignore_unsupported, unsupported, body, response, result,
                   html_calls, esp_extra, args>>

\* set_html_body(body); unsupported_feature raises unless the backend ignores it
SetHtmlBody ==
    /\ pc = "build"
    /\ Len(html_calls) < MaxHtmlCalls
    /\ \E html \in HtmlBodies :
         LET signalled == html_unsupported(payload, html)
         IN  /\ unsupported' = IF signalled THEN Append(unsupported, "multiple html parts")
                               ELSE unsupported
             /\ html_calls' = IF html # "" THEN Append(html_calls, html) ELSE html_calls
             /\ IF signalled /\ ~ignore_unsupported
                THEN pc' = "unsupported" /\ payload' = payload
                ELSE pc' = pc /\ payload' = set_html_body(payload, html)
    /\ UNCHANGED <<is_batch, ignore_unsupported, body, response, result, calls, called,
                   esp_extra, args>>

SetEspExtra ==
    /\ pc = "build"
    /\ "esp_extra" \notin called
    /\ \E extra \in Extras :
         /\ payload' = set_esp_extra(payload, extra)
         /\ esp_extra' = extra
    /\ called' = called \cup {"esp_extra"}
    /\ UNCHANGED <<pc, is_batch, ignore_unsupported, unsupported, body, response, result,
                   calls, html_calls, args>>

Once(name, p) ==
    /\ pc = "build"
    /\ name \notin called
    /\ payload' = p
    /\ called' = called \cup {name}
    /\ UNCHANGED <<pc, is_batch, ignore_unsupported, unsupported, body, response, result,
                   html_calls, esp_extra, args>>

SetMergeData == \E merge_data \in MergeDatas :
    Once("merge_data", set_merge_data(payload, merge_data)) /\ UNCHANGED calls

SetMetadata == \E metadata \in Metadatas :
    Once("metadata", set_metadata(payload, metadata)) /\ UNCHANGED calls

SetMergeMetadata == \E merge_metadata \in MergeMetadatas :
    Once("merge_metadata", set_merge_metadata(payload, merge_metadata)) /\ UNCHANGED calls

\* serialize_data(), once the payload is built; is_batch() is the framework's answer
SerializeData ==
    /\ pc = "build"
    /\ \E batch \in BOOLEAN :
         LET out == serialize_data(payload, batch)
         IN  /\ is_batch' = batch
             /\ payload' = out.payload
             /\ body' = out.body
    /\ pc' = "serialized"
    /\ UNCHANGED <<ignore_unsupported, unsupported, response, result, calls, html_calls,
                   called, esp_extra, args>>

\* parse_recipient_status(response, payload, message) on the posted message's response
ParseRecipientStatus ==
    /\ pc = "serialized"
    /\ \E resp \in Responses :
         LET out == parse_recipient_status(resp, payload, args)
         IN  /\ response' = <<resp>>
             /\ result' = out
             /\ pc' = IF out.raised THEN "api_error" ELSE "done"
    /\ UNCHANGED <<payload, is_batch, ignore_unsupported, unsupported, body, calls,
                   html_calls, called, esp_extra, args>>

\* recipients, esp_extra, serialization and the response
InitStatus == InitWith(FALSE, NoArgs)

NextStatus == CallSetRecipients \/ SetEspExtra \/ SerializeData \/ ParseRecipientStatus

SpecStatus == InitStatus /\ [][NextStatus]_vars

\* the payload's construction and serialization
Init == InitWith(FALSE, NoArgs)

Next ==
    \/ SetRecipientsOnce
    \/ SetEspExtra
    \/ SetMergeData
    \/ SetMetadata
    \/ SetMergeMetadata
    \/ SerializeData

Spec == Init /\ [][Next]_vars

\* the html parts of a message, under either setting of ignore_unsupported_features
InitHtml == \E ignore \in BOOLEAN : InitWith(ignore, NoArgs)

NextHtml == SetHtmlBody \/ SetEspExtra \/ SetMetadata \/ SerializeData

SpecHtml == InitHtml /\ [][NextHtml]_vars

\* one message's to, merge_data, metadata and merge_metadata, set in any order
ArgSets ==
    [to : {AsTuple(l) : l \in EmailLists}, merge_data : MergeDatas, metadata : Metadatas,
     merge_metadata : MergeMetadatas]

InitOrder == \E a \in ArgSets : InitWith(FALSE, a)

OrderSetRecipients ==
    /\ calls' = Append(calls, <<"to", args.to>>)
    /\ Once("to", set_recipients(payload, "to", args.to))

OrderSetMergeData ==
    Once("merge_data", set_merge_data(payload, args.merge_data)) /\ UNCHANGED calls

OrderSetMetadata ==
    Once("metadata", set_metadata(payload, args.metadata)) /\ UNCHANGED calls

OrderSetMergeMetadata ==
    Once("merge_metadata", set_merge_metadata(payload, args.merge_metadata))
    /\ UNCHANGED calls

OrderSerializeData ==
    /\ called = {"to", "merge_data", "metadata", "merge_metadata"}
    /\ SerializeData

NextOrder ==
    \/ OrderSetRecipients
    \/ OrderSetMergeData
    \/ OrderSetMetadata
    \/ OrderSetMergeMetadata
    \/ OrderSerializeData

SpecOrder == InitOrder /\ [][NextOrder]_vars

-----------------------------------------------------------------------------
(* Properties of parse_recipient_status and of the recipient bookkeeping *)

Resp == response[1]

Parsed == Resp.parsed

Parsing == pc \in {"done", "api_error"}

HasField(k) == Parsed.kind = "object" /\ k \in Parsed.keys

Queued(message_id) == AnymailRecipientStatus(message_id, "queued")

HasStatus(addr_spec, status) ==
    /\ Has(result.recipient_status, addr_spec)
    /\ Get(result.recipient_status, addr_spec) = status

Min(a, b) == IF a < b THEN a ELSE b

AddrSpecs(recipients) == {recipients[i].addr_spec : i \in 1..Len(recipients)}

\* the last set_recipients call that passed a non-empty "to" list, 0 when there is none
LastTo ==
    LET tos == {c \in 1..Len(calls) : calls[c][1] = "to" /\ Len(calls[c][2]) > 0}
    IN  IF tos = {} THEN 0 ELSE CHOOSE c \in tos : \A d \in tos : d <= c

RECURSIVE Concat(_)
Concat(cs) == IF Len(cs) = 0 THEN <<>> ELSE cs[1][2] \o Concat(Tail(cs))

BatchResponse ==
    Parsing /\ ~Resp.empty /\ ~HasField("messageId") /\ HasField("messageIds")

Covered == Min(Len(Parsed.messageIds), Len(payload.to_recipients))

\* C1 as stated: in a batch response the i-th to-recipient gets the i-th id, and every
\* other recipient (cc, bcc, a to-recipient beyond the ids) keeps queued / None.
C1_BatchIdsByPosition ==
    BatchResponse =>
        /\ pc = "done"
        /\ \A i \in 1..Covered :
             HasStatus(payload.to_recipients[i].addr_spec, Queued(Some(Parsed.messageIds[i])))
        /\ \A c \in 1..Len(calls) : \A j \in 1..Len(calls[c][2]) :
             ~(c = LastTo /\ j <= Covered) => HasStatus(calls[c][2][j].addr_spec, Queued(NoId))

\* C1 amended: the statuses are keyed by address. An address of a covered to-recipient
\* carries the id at the last covered position holding that address; every other address
\* of all_recipients keeps queued / None.
C1_BatchIdsByAddress ==
    BatchResponse =>
        /\ pc = "done"
        /\ Keys(result.recipient_status) = AddrSpecs(payload.all_recipients)
        /\ \A a \in AddrSpecs(payload.all_recipients) :
             LET at == {i \in 1..Covered : payload.to_recipients[i].addr_spec = a}
             IN  IF at = {} THEN HasStatus(a, Queued(NoId))
                 ELSE HasStatus(a, Queued(Some(Parsed.messageIds[
                                     CHOOSE i \in at : \A k \in at : k <= i])))

C1_Witness ==
    /\ BatchResponse /\ pc = "done"
    /\ Len(payload.to_recipients) = 2 /\ Len(Parsed.messageIds) = 1
    /\ payload.to_recipients[1].addr_spec # payload.to_recipients[2].addr_spec
    /\ HasStatus(payload.to_recipients[1].addr_spec, Queued(Some("1")))
    /\ HasStatus(payload.to_recipients[2].addr_spec, Queued(NoId))

\* C2: a non-empty response whose JSON has neither messageId nor messageIds raises
\* AnymailRequestsAPIError with the message, the payload and the response, and returns
\* no statuses.
C2_MalformedResponseRaises ==
    (Parsing /\ ~Resp.empty /\ ~HasField("messageId") /\ ~HasField("messageIds")) =>
        /\ pc = "api_error"
        /\ result.raised
        /\ result.exc = "AnymailRequestsAPIError"
        /\ result.text = "Invalid SendinBlue API response format"
        /\ result.email_message = <<args>>
        /\ result.payload = payload
        /\ result.response = response
        /\ Len(result.recipient_status) = 0

C2_Witness ==
    /\ pc = "api_error"
    /\ Parsed.kind = "object" /\ Parsed.keys = {"foo"}
    /\ Len(payload.all_recipients) = 2

\* C3: a messageId field, with or without messageIds beside it, gives every recipient
\* that id with status queued.
C3_SingleIdForAll ==
    (Parsing /\ ~Resp.empty /\ HasField("messageId")) =>
        /\ pc = "done"
        /\ \A i \in 1..Len(payload.all_recipients) :
             HasStatus(payload.all_recipients[i].addr_spec, Queued(Some(Parsed.messageId)))

C3_Witness ==
    /\ pc = "done" /\ ~Resp.empty
    /\ HasField("messageId") /\ HasField("messageIds")
    /\ Len(payload.to_recipients) = 1 /\ Len(payload.all_recipients) = 2
    /\ \E c \in 1..Len(calls) : calls[c][1] = "bcc" /\ Len(calls[c][2]) = 1
    /\ \A i \in 1..2 : HasStatus(payload.all_recipients[i].addr_spec, Queued(Some("0")))

\* C4: an empty response raises nothing and gives every recipient queued / None.
C4_EmptyResponseQueued ==
    (Parsing /\ Resp.empty) =>
        /\ pc = "done"
        /\ ~result.raised
        /\ \A i \in 1..Len(payload.all_recipients) :
             HasStatus(payload.all_recipients[i].addr_spec, Queued(NoId))

C4_Witness ==
    /\ pc = "done" /\ Resp.empty
    /\ Len(payload.all_recipients) = 3
    /\ Cardinality(AddrSpecs(payload.all_recipients)) = 2
    /\ \A i \in 1..3 : HasStatus(payload.all_recipients[i].addr_spec, Queued(NoId))

\* C5: all_recipients is the concatenation of the lists passed to set_recipients, in call
\* order; to_recipients is the last non-empty list passed as "to" (empty when there is
\* none); a call with an empty list leaves the payload as it was.
C5_RecipientBookkeeping ==
    /\ [](/\ payload.all_recipients = Concat(calls)
          /\ payload.to_recipients = IF LastTo = 0 THEN <<>> ELSE calls[LastTo][2])
    /\ [][(Len(calls') = Len(calls) + 1 /\ Len(calls'[Len(calls')][2]) = 0)
            => payload' = payload]_vars

C5_Witness ==
    /\ Len(calls) = 3
    /\ calls[1][1] = "to" /\ Len(calls[1][2]) = 1
    /\ calls[2][1] = "cc" /\ Len(calls[2][2]) = 1
    /\ calls[3][1] = "bcc" /\ Len(calls[3][2]) = 0
    /\ Len(payload.all_recipients) = 2
    /\ payload.to_recipients = calls[1][2]

\* the versions of the serialized batch body
Versions == Get(payload.data, "messageVersions")

VersionEmail(version) == Get(Get(version, "to")[1], "email")

Serialized == pc \in {"serialized", "done", "api_error"}

\* C10: unless set_esp_extra supplied "to" or "messageVersions", the i-th version of a
\* serialized batch is addressed to to_recipients[i]; so when the response carries one id
\* per version, in the versions' order, each to-recipient's status has the id of a version
\* addressed to it.
C10_VersionsAlignWithToRecipients ==
    (Serialized /\ is_batch /\ Keys(esp_extra) \cap {"to", "messageVersions"} = {}) =>
        /\ Len(Versions) = Len(payload.to_recipients)
        /\ \A i \in 1..Len(Versions) :
             VersionEmail(Versions[i]) = payload.to_recipients[i].addr_spec
        /\ (BatchResponse /\ Len(Parsed.messageIds) = Len(Versions)) =>
             \A i \in 1..Len(payload.to_recipients) :
               \E j \in 1..Len(Versions) :
                 /\ VersionEmail(Versions[j]) = payload.to_recipients[i].addr_spec
                 /\ HasStatus(payload.to_recipients[i].addr_spec,
                              Queued(Some(Parsed.messageIds[j])))

C10_Witness ==
    /\ pc = "done" /\ is_batch /\ BatchResponse
    /\ Len(calls) = 2 /\ calls[1][1] = "cc" /\ calls[2][1] = "to"
    /\ Len(Versions) = 2 /\ Len(Parsed.messageIds) = 2
    /\ VersionEmail(Versions[1]) = "y@y.com" /\ VersionEmail(Versions[2]) = "x@x.com"
    /\ HasStatus("y@y.com", Queued(Some("1")))
    /\ HasStatus("x@x.com", Queued(Some("2")))

-----------------------------------------------------------------------------
(* Properties of serialize_data *)

SerializeStep == pc = "build" /\ pc' = "serialized"

ToList(p) == IF Has(p.data, "to") THEN Get(p.data, "to") ELSE <<>>

\* C6: serializing a batch send removes the top-level "to" and leaves one version per
\* entry of the former "to" list, in order, each with to = [that entry] and params = the
\* merge_data entry of its email, or None; the entries are the recipients passed as "to"
\* unless set_esp_extra replaced the list.
C6_BatchVersions ==
    [][(SerializeStep /\ is_batch') =>
        LET to_list == ToList(payload)
            versions == Get(payload'.data, "messageVersions")
        IN  /\ ~Has(payload'.data, "to")
            /\ Len(versions) = Len(to_list)
            /\ \A i \in 1..Len(to_list) :
                 /\ Get(versions[i], "to") = <<to_list[i]>>
                 /\ Get(versions[i], "params") =
                      IF Has(payload.merge_data, Get(to_list[i], "email"))
                      THEN Some(Get(payload.merge_data, Get(to_list[i], "email")))
                      ELSE None
            /\ ~Has(esp_extra, "to") =>
                 /\ Len(to_list) = Len(payload.to_recipients)
                 /\ \A i \in 1..Len(to_list) :
                      /\ Get(to_list[i], "email") = payload.to_recipients[i].addr_spec
                      /\ Has(to_list[i], "name") = (payload.to_recipients[i].display_name # "")
            /\ body' = serialize_json_data(payload'.data)]_vars

C6_Witness ==
    /\ pc = "serialized" /\ is_batch
    /\ ~Has(payload.data, "to")
    /\ Len(Versions) = 2
    /\ VersionEmail(Versions[1]) = "y@y.com" /\ Get(Versions[1], "params") = None
    /\ VersionEmail(Versions[2]) = "x@x.com"
    /\ Get(Versions[2], "params") = Some(<< <<"name", "X">> >>)

\* the <<key, value>> pairs of the global metadata overridden by a recipient's metadata
Overridden(global, recipient) ==
    {<<k, Get(recipient, k)>> : k \in Keys(recipient)}
    \cup {<<k, Get(global, k)>> : k \in Keys(global) \ Keys(recipient)}

\* the serializations of a set of pairs, in any key order
Serializations(pairs) ==
    {serialize_json(AsTuple(m)) :
        m \in {f \in [1..Cardinality(pairs) -> pairs] :
                 \A i, j \in 1..Cardinality(pairs) : f[i] = f[j] => i = j}}

TopHeader(p) ==
    IF Has(p.data, "headers") /\ Has(Get(p.data, "headers"), "X-Mailin-custom")
    THEN Some(Get(Get(p.data, "headers"), "X-Mailin-custom"))
    ELSE None

\* C8: serializing a batch send gives each version whose email is a key of merge_metadata
\* the header X-Mailin-custom = the serialized global metadata overridden by that
\* recipient's metadata, gives the other versions no headers, and leaves the top-level
\* X-Mailin-custom header and the stored metadata as they were.
C8_PerRecipientMetadata ==
    [][(SerializeStep /\ is_batch') =>
        LET versions == Get(payload'.data, "messageVersions")
        IN  /\ \A i \in 1..Len(versions) :
                 LET to_email == VersionEmail(versions[i])
                 IN  IF Has(payload.merge_metadata, to_email)
                     THEN /\ Has(versions[i], "headers")
                          /\ Keys(Get(versions[i], "headers")) = {"X-Mailin-custom"}
                          /\ Get(Get(versions[i], "headers"), "X-Mailin-custom") \in
                               Serializations(Overridden(payload.metadata,
                                    Get(payload.merge_metadata, to_email)))
                     ELSE ~Has(versions[i], "headers")
            /\ TopHeader(payload') = TopHeader(payload)
            /\ payload'.metadata = payload.metadata
            /\ payload'.merge_metadata = payload.merge_metadata]_vars

C8_Witness ==
    /\ pc = "serialized" /\ is_batch
    /\ Len(Versions) = 2
    /\ VersionEmail(Versions[1]) = "x@x.com" /\ VersionEmail(Versions[2]) = "y@y.com"
    /\ Has(Versions[1], "headers")
    /\ Get(Get(Versions[1], "headers"), "X-Mailin-custom") =
         serialize_json(<< <<"k", "g">>, <<"j", "r">>, <<"n", "s">> >>)
    /\ ~Has(Versions[2], "headers")
    /\ TopHeader(payload) = Some(serialize_json(<< <<"k", "g">>, <<"j", "g2">> >>))

\* the body of a payload on which the four setters were called in the order
\* set_recipients, set_merge_data, set_metadata, set_merge_metadata
BodyInOrder(a, batch) ==
    serialize_data(
        set_merge_metadata(
            set_metadata(
                set_merge_data(set_recipients(init_payload, "to", a.to), a.merge_data),
                a.metadata),
            a.merge_metadata),
        batch).body

\* C9: set_merge_data and set_merge_metadata leave data as it was, and the body that
\* serialize_data returns is the same whatever the order in which set_recipients("to"),
\* set_merge_data, set_metadata and set_merge_metadata were called with given arguments.
C9_SetterOrderIndependent ==
    /\ [](pc = "serialized" => body = BodyInOrder(args, is_batch))
    /\ [][(\E name \in {"merge_data", "merge_metadata"} : name \in called' \ called)
            => payload'.data = payload.data]_vars

C9_Witness ==
    /\ pc = "serialized" /\ is_batch
    /\ calls = << <<"to", args.to>> >> /\ Len(args.to) = 2
    /\ Len(args.merge_data) > 0 /\ Len(args.metadata) > 0 /\ Len(args.merge_metadata) > 0
    /\ payload.merge_data = args.merge_data
    /\ body = BodyInOrder(args, TRUE)
    /\ Len(body) > 40

-----------------------------------------------------------------------------
(* Properties of set_html_body *)

TwoHtmlBodies ==
    /\ pc \in {"build", "unsupported"}
    /\ Len(html_calls) = 2
    /\ ~Has(esp_extra, "htmlContent")

\* C7 as stated: two set_html_body calls signal unsupported-feature once and htmlContent
\* keeps the first call's value.
C7_FirstHtmlBodyWins ==
    TwoHtmlBodies =>
        /\ unsupported = <<"multiple html parts">>
        /\ Get(payload.data, "htmlContent") = html_calls[1]

\* C7 amended: two set_html_body calls signal unsupported-feature once; htmlContent keeps
\* the first call's value when the signal raises, and holds the second call's value when
\* unsupported features are ignored.
C7_SecondHtmlBodySignals ==
    TwoHtmlBodies =>
        /\ unsupported = <<"multiple html parts">>
        /\ pc = IF ignore_unsupported THEN "build" ELSE "unsupported"
        /\ Get(payload.data, "htmlContent") =
             IF ignore_unsupported THEN html_calls[2] ELSE html_calls[1]

C7_Witness ==
    /\ TwoHtmlBodies /\ ignore_unsupported
    /\ html_calls = <<"h1", "h2">>
    /\ unsupported = <<"multiple html parts">>
    /\ Get(payload.data, "htmlContent") = "h2"

====
